---- MODULE Spec2Model ----
(***************************************************************************)
(* Category tree and catalog membership of the Federal Parts backend.      *)
(* The Category collection (models/Category), the Product collection       *)
(* (models/Product), the category controller and the server's category     *)
(* and product routes, as a state machine over the two collections.        *)
(***************************************************************************)
EXTENDS Integers, Sequences, FiniteSets, TLC

(* ------------------------------ bounds -------------------------------- *)
\* ObjectIds the Category collection can hand out (never reused).
MaxCats == 3
\* ObjectIds the Product collection can hand out.
MaxProds == 1
\* Ids one bulk update names.
MaxOrder == 1

Cats == 1..MaxCats
Prods == 1..MaxProds
\* null / undefined of the JavaScript source
Null == 0
\* marks a recursion of the source that never returns
Bottom == 0 - 1
\* A request value that mongoose.Types.ObjectId.isValid refuses.
Malformed == 0 - 2

(* ------------------------------ names --------------------------------- *)
\* A name is a sequence of one-character strings.
Names == { <<"a">>, <<"A">>, <<"a", "+">>, <<"b">> }
\* What a request may send as name: a stored-form name, or a blank one.
NameInputs == Names \cup { <<" ">> }

IsSpace(ch) == ch = " "
IsWord(ch) == ch \in {"a", "b", "c", "A", "B", "C", "_"}

\* String.prototype.toLowerCase, per character
LowerChar(ch) ==
  CASE ch = "A" -> "a"
    [] ch = "B" -> "b"
    [] ch = "C" -> "c"
    [] OTHER -> ch

toLowerCase(s) == [i \in 1..Len(s) |-> LowerChar(s[i])]

RECURSIVE TrimLeft(_)
TrimLeft(s) == IF s # <<>> /\ IsSpace(Head(s)) THEN TrimLeft(Tail(s)) ELSE s

RECURSIVE TrimRight(_)
TrimRight(s) ==
  IF s # <<>> /\ IsSpace(s[Len(s)]) THEN TrimRight(SubSeq(s, 1, Len(s) - 1)) ELSE s

\* String.prototype.trim
trim(s) == TrimRight(TrimLeft(s))

\* .replace(/[^\w\s-]/g, '')
RECURSIVE StripNonWord(_)
StripNonWord(s) ==
  IF s = <<>> THEN <<>>
  ELSE IF IsWord(Head(s)) \/ IsSpace(Head(s)) \/ Head(s) = "-"
       THEN <<Head(s)>> \o StripNonWord(Tail(s))
       ELSE StripNonWord(Tail(s))

\* .replace(/\s+/g, '-')
RECURSIVE SpacesToHyphen(_)
SpacesToHyphen(s) ==
  IF s = <<>> THEN <<>>
  ELSE IF IsSpace(Head(s))
       THEN <<"-">> \o SpacesToHyphen(TrimLeft(s))
       ELSE <<Head(s)>> \o SpacesToHyphen(Tail(s))

\* .replace(/--+/g, '-')
RECURSIVE CollapseHyphens(_)
CollapseHyphens(s) ==
  IF s = <<>> THEN <<>>
  ELSE IF Head(s) = "-" /\ Len(s) >= 2 /\ s[2] = "-"
       THEN CollapseHyphens(Tail(s))
       ELSE <<Head(s)>> \o CollapseHyphens(Tail(s))

\* The pre-save hook's slug, then the slug path's trim and lowercase setters.
slugify(nm) ==
  toLowerCase(trim(CollapseHyphens(SpacesToHyphen(StripNonWord(toLowerCase(nm))))))

\* new RegExp(`^${pattern}$`, "i").test(s) for patterns made of literal
\* characters and the postfix quantifier "+".
RECURSIVE RegExpTest(_, _)
RegExpTest(pattern, s) ==
  IF pattern = <<>> THEN s = <<>>
  ELSE IF Len(pattern) >= 2 /\ pattern[2] = "+"
       THEN \E k \in 1..Len(s) :
              /\ \A i \in 1..k : LowerChar(s[i]) = LowerChar(pattern[1])
              /\ RegExpTest(SubSeq(pattern, 3, Len(pattern)), SubSeq(s, k + 1, Len(s)))
       ELSE /\ s # <<>>
            /\ LowerChar(Head(s)) = LowerChar(Head(pattern))
            /\ RegExpTest(Tail(pattern), Tail(s))

(* ------------------------------ state --------------------------------- *)
VARIABLES
  ids,        \* _id of every document of the Category collection
  nextId,     \* the next ObjectId the Category collection hands out
  category,   \* the Category documents, by _id
  pids,       \* _id of every document of the Product collection
  product,    \* the Product documents, by _id
  last,       \* the last request handled and its response
  moves,      \* moveCategory requests in flight, between their reads and their save
  walker,     \* a walk up the parent chain in flight
  view,       \* what the answer of the step just taken holds, when it holds data
  faulty      \* the store raises an error on the calls of a count recomputation

vars == <<ids, nextId, category, pids, product, last, moves, walker, view, faulty>>

NoCategory ==
  [name |-> <<>>, slug |-> <<>>, parentCategory |-> Null, isActive |-> TRUE,
   productCountReal |-> 0, totalProductCount |-> 0]

NoProduct == [category |-> Null, categories |-> <<>>, isActive |-> TRUE]

\* No request that reads has been answered.
NoView == [op |-> "none", res |-> <<>>]

\* Two requests at a time.
MaxMoves == 2
Movers == 1..MaxMoves
NoMove == [pc |-> "idle", id |-> Null, newParentId |-> Null, res |-> "none"]
\* The calls a walk has made are counted modulo MaxCalls.
MaxCalls == 3
NoWalk == [pc |-> "idle", op |-> "none", at |-> Null, seen |-> {}, calls |-> 0]

\* A handled request: the handler and the outcome and, of a moveCategory
\* request, the :id it named and the newParentId it asked for.
Response(op, id, arg, res) ==
  [op |-> op,
   id |-> IF op = "moveCategory" THEN id ELSE Null,
   arg |-> IF op = "moveCategory" THEN arg ELSE Null,
   res |-> res]

\* An optional request field: <<>> when the body omits it, <<v>> when it holds v.
Given(x) == x # <<>>
Val(x) == x[1]

Init ==
  /\ ids = {}
  /\ nextId = 1
  /\ category = [c \in Cats |-> NoCategory]
  /\ pids = {}
  /\ product = [p \in Prods |-> NoProduct]
  /\ last = Response("none", Null, Null, "ok")
  /\ moves = [m \in Movers |-> NoMove]
  /\ walker = NoWalk
  /\ view = NoView
  /\ faulty = FALSE

(* ------------------ Category model: counts and hooks ------------------- *)
\* calculateProductCount's inner getAllDescendantIds: the category itself and,
\* recursively, its active children. The source has no visited set: on a
\* cycle of active categories the recursion never returns (Bottom).
RECURSIVE getAllDescendantIds(_, _, _, _)
getAllDescendantIds(cat, I, parentId, fuel) ==
  IF fuel = 0 THEN {Bottom}
  ELSE LET childCategories ==
             {k \in I : cat[k].parentCategory = parentId /\ cat[k].isActive}
       IN {parentId} \cup
          UNION {getAllDescendantIds(cat, I, k, fuel - 1) : k \in childCategories}

\* Category.calculateProductCount(categoryId, includeChildren): active products
\* counted by their single `category` field.
calculateProductCount(cat, I, prod, P, categoryId, includeChildren) ==
  IF includeChildren
  THEN LET allCategoryIds == getAllDescendantIds(cat, I, categoryId, MaxCats + 1)
       IN IF Bottom \in allCategoryIds THEN Bottom
          ELSE Cardinality({p \in P : prod[p].category \in allCategoryIds
                                      /\ prod[p].isActive})
  ELSE Cardinality({p \in P : prod[p].category = categoryId /\ prod[p].isActive})

\* Category.updateProductCount(categoryId): both counts written by one
\* findByIdAndUpdate; hang when the descendant walk never returns. An error
\* the store raises is caught and nothing is written.
updateProductCount(cat, I, prod, P, categoryId) ==
  IF categoryId = Null THEN [category |-> cat, hang |-> FALSE]
  ELSE IF faulty THEN [category |-> cat, hang |-> FALSE]
  ELSE LET productCount == calculateProductCount(cat, I, prod, P, categoryId, FALSE)
           totalProductCount == calculateProductCount(cat, I, prod, P, categoryId, TRUE)
       IN IF totalProductCount = Bottom THEN [category |-> cat, hang |-> TRUE]
          ELSE IF categoryId \notin I THEN [category |-> cat, hang |-> FALSE]
          ELSE [category |-> [cat EXCEPT ![categoryId].productCountReal = productCount,
                                         ![categoryId].totalProductCount = totalProductCount],
                hang |-> FALSE]

\* categorySchema.post('save'): the parent's counts, then the document's own.
postSave(cat, I, prod, P, docId) ==
  LET first == updateProductCount(cat, I, prod, P, cat[docId].parentCategory)
  IN IF first.hang THEN first
     ELSE updateProductCount(first.category, I, prod, P, docId)

\* categorySchema.post('findOneAndDelete'): the deleted document's parent.
postFindOneAndDelete(cat, I, prod, P, parentId) ==
  updateProductCount(cat, I, prod, P, parentId)

\* The compound index { name: 1, parentCategory: 1 } alone.
UniqueIndexesAllowNoSlug(cat, I, docId) ==
  \A k \in I \ {docId} :
    ~(cat[k].name = cat[docId].name
      /\ cat[k].parentCategory = cat[docId].parentCategory)

\* The collection's unique indexes: { slug: 1 } and { name: 1, parentCategory: 1 }.
UniqueIndexesAllow(cat, I, docId) ==
  \A k \in I \ {docId} :
    /\ cat[k].slug # cat[docId].slug
    /\ ~(cat[k].name = cat[docId].name
         /\ cat[k].parentCategory = cat[docId].parentCategory)

\* categorySchema.pre("save"): the slug follows the name when the name changed
\* or no slug is set.
preSave(old, doc) ==
  IF doc.slug = <<>> \/ doc.name # old.name
  THEN [doc EXCEPT !.slug = slugify(doc.name)]
  ELSE doc

\* document.save(): validation (name required), pre-save, the write under the
\* unique indexes, then post-save. res: "ok", "hang" (written, the hook never
\* returns), "ValidationError" or "E11000" (nothing written).
save(cat, I, prod, P, docId, doc) ==
  LET saved == preSave(cat[docId], doc)
      cat1 == [cat EXCEPT ![docId] = saved]
      I1 == I \cup {docId}
  IN IF doc.name = <<>>
     THEN [res |-> "ValidationError", category |-> cat]
     ELSE IF ~UniqueIndexesAllow(cat1, I1, docId)
     THEN [res |-> "E11000", category |-> cat]
     ELSE LET hook == postSave(cat1, I1, prod, P, docId)
          IN [res |-> IF hook.hang THEN "hang" ELSE "ok", category |-> hook.category]

(* ------------------------ category controller -------------------------- *)
Reply(op, id, arg, res) ==
  /\ last' = Response(op, id, arg, res)
  /\ UNCHANGED <<ids, nextId, category, pids, product, moves, walker, faulty>> /\ view' = NoView

\* A new document is saved; a failed save leaves the collection as it was.
Insert(op, arg, doc, onE11000) ==
  LET s == save(category, ids, product, pids, nextId, doc)
  IN /\ nextId <= MaxCats
     /\ IF s.res \in {"ok", "hang"}
        THEN /\ ids' = ids \cup {nextId}
             /\ nextId' = nextId + 1
             /\ category' = s.category
             /\ last' = Response(op, nextId, arg, s.res)
        ELSE /\ UNCHANGED <<ids, nextId, category>>
             /\ last' = Response(op, Null, arg,
                                 IF s.res = "E11000" THEN onE11000 ELSE "Error")
     /\ UNCHANGED <<pids, product, moves, walker, faulty>> /\ view' = NoView

\* exports.createCategory
CreateCategory(nameIn, parentCategory) ==
  LET name == trim(nameIn)
      existingCategory ==
        \E k \in ids : /\ RegExpTest(name, category[k].name)
                       /\ category[k].parentCategory = parentCategory
  IN IF name = <<>>
     THEN Reply("createCategory", Null, parentCategory, "InvalidName")
     ELSE IF existingCategory
     THEN Reply("createCategory", Null, parentCategory, "DuplicateSiblingName")
     ELSE IF parentCategory # Null /\ parentCategory \notin ids
     THEN Reply("createCategory", Null, parentCategory, "ParentNotFound")
     ELSE Insert("createCategory", parentCategory,
                 [NoCategory EXCEPT !.name = name, !.parentCategory = parentCategory],
                 "DuplicateKey")

\* exports.addRootCategory
AddRootCategory(nameIn) ==
  LET name == trim(nameIn)
      existingRootCategory ==
        \E k \in ids : /\ RegExpTest(name, category[k].name)
                       /\ category[k].parentCategory = Null
  IN IF name = <<>>
     THEN Reply("addRootCategory", Null, Null, "InvalidName")
     ELSE IF existingRootCategory
     THEN Reply("addRootCategory", Null, Null, "DuplicateSiblingName")
     ELSE Insert("addRootCategory", Null, [NoCategory EXCEPT !.name = name],
                 "DuplicateKey")

\* A walk that looks at the new parent alone.
CircularWalkOneStep(cat, I, currentParent, id, fuel) ==
  IF currentParent = id THEN "circular" ELSE "clear"

\* The while loop of updateCategory and moveCategory: walk up from the new
\* parent; "circular" when the walk meets id, "clear" when it runs out of
\* parents, "hang" when it circles without meeting id.
RECURSIVE CircularWalk(_, _, _, _, _)
CircularWalk(cat, I, currentParent, id, fuel) ==
  IF currentParent = id THEN "circular"
  ELSE IF fuel = 0 THEN "hang"
  ELSE IF currentParent \notin I \/ cat[currentParent].parentCategory = Null
  THEN "clear"
  ELSE CircularWalk(cat, I, cat[currentParent].parentCategory, id, fuel - 1)

\* An existing document is changed and saved.
Store(op, id, arg, doc, onE11000) ==
  LET s == save(category, ids, product, pids, id, doc)
  IN /\ category' = s.category
     /\ last' = Response(op, id, arg,
                         CASE s.res = "E11000" -> onE11000
                           [] s.res = "ValidationError" -> "Error"
                           [] OTHER -> s.res)
     /\ UNCHANGED <<ids, nextId, pids, product, moves, walker, faulty>> /\ view' = NoView

\* exports.updateCategory; each of name, parentCategory, isActive is optional.
UpdateCategory(id, nameIn, parentIn, activeIn) ==
  LET cur == category[id]
      arg == IF Given(parentIn) THEN Val(parentIn) ELSE Null
      parentCat == IF Given(parentIn) THEN Val(parentIn) ELSE cur.parentCategory
      checkName == Given(nameIn) /\ Val(nameIn) # <<>> /\ trim(Val(nameIn)) # cur.name
      existingCategory ==
        \E k \in ids \ {id} : /\ RegExpTest(trim(Val(nameIn)), category[k].name)
                              /\ category[k].parentCategory = parentCat
      newParent == Given(parentIn) /\ Val(parentIn) # Null
      walk == CircularWalk(category, ids, Val(parentIn), id, MaxCats + 1)
      doc == [cur EXCEPT
                !.name = IF Given(nameIn) THEN trim(Val(nameIn)) ELSE @,
                !.parentCategory = IF Given(parentIn) THEN Val(parentIn) ELSE @,
                !.isActive = IF Given(activeIn) THEN Val(activeIn) ELSE @]
  IN IF id \notin ids THEN Reply("updateCategory", id, arg, "CategoryNotFound")
     ELSE IF checkName /\ existingCategory
     THEN Reply("updateCategory", id, arg, "DuplicateSiblingName")
     ELSE IF newParent /\ Val(parentIn) = id
     THEN Reply("updateCategory", id, arg, "SelfParent")
     ELSE IF newParent /\ walk = "circular"
     THEN Reply("updateCategory", id, arg, "CircularReference")
     ELSE IF newParent /\ walk = "hang"
     THEN Reply("updateCategory", id, arg, "hang")
     ELSE IF newParent /\ Val(parentIn) \notin ids
     THEN Reply("updateCategory", id, arg, "ParentNotFound")
     ELSE Store("updateCategory", id, arg, doc, "DuplicateKey")

\* exports.moveCategory up to its save: what the reads of the request decide.
\* "pass" when the document may be saved with the new parent.
MoveCheck(cat, I, id, newParentId) ==
  LET walk == CircularWalk(cat, I, newParentId, id, MaxCats + 1)
      duplicateCategory ==
        \E k \in I \ {id} : /\ RegExpTest(cat[id].name, cat[k].name)
                            /\ cat[k].parentCategory = newParentId
  IN IF id \notin I THEN "CategoryNotFound"
     ELSE IF newParentId = Null THEN "pass"
     ELSE IF newParentId \notin I THEN "ParentNotFound"
     ELSE IF newParentId = id THEN "SelfParent"
     ELSE IF walk = "circular" THEN "CircularReference"
     ELSE IF walk = "hang" THEN "hang"
     ELSE IF duplicateCategory THEN "DuplicateSiblingName"
     ELSE "pass"

\* exports.moveCategory, one request served from start to end.
MoveCategory(id, newParentId) ==
  LET check == MoveCheck(category, ids, id, newParentId)
  IN IF check # "pass" THEN Reply("moveCategory", id, newParentId, check)
     ELSE Store("moveCategory", id, newParentId,
                [category[id] EXCEPT !.parentCategory = newParentId], "Error")

\* exports.moveCategory served next to other requests: first its reads ...
MoveValidate(m, id, newParentId) ==
  LET check == MoveCheck(category, ids, id, newParentId)
  IN /\ moves[m].pc = "idle"
     /\ moves' = [moves EXCEPT ![m] =
                    IF check = "pass"
                    THEN [pc |-> "validated", id |-> id,
                          newParentId |-> newParentId, res |-> "none"]
                    ELSE [pc |-> "done", id |-> id,
                          newParentId |-> newParentId, res |-> check]]
     /\ UNCHANGED <<ids, nextId, category, pids, product, last, walker, faulty>> /\ view' = NoView

\* ... then category.parentCategory = newParentId and category.save().
MoveWrite(m) ==
  LET id == moves[m].id
      s == save(category, ids, product, pids, id,
                [category[id] EXCEPT !.parentCategory = moves[m].newParentId])
  IN /\ moves[m].pc = "validated"
     /\ category' = s.category
     /\ moves' = [moves EXCEPT ![m].pc = "done",
                               ![m].res = IF s.res \in {"ok", "hang"} THEN s.res
                                          ELSE "Error"]
     /\ UNCHANGED <<ids, nextId, pids, product, last, walker, faulty>> /\ view' = NoView

\* exports.deleteCategory
DeleteCategory(id) ==
  LET productCount == Cardinality({p \in pids : product[p].category = id})
      childCount == Cardinality({k \in ids : category[k].parentCategory = id})
      gone == [category EXCEPT ![id] = NoCategory]
      hook == postFindOneAndDelete(gone, ids \ {id}, product, pids,
                                   category[id].parentCategory)
  IN IF id \notin ids THEN Reply("deleteCategory", id, Null, "CategoryNotFound")
     ELSE IF productCount > 0 THEN Reply("deleteCategory", id, Null, "HasProducts")
     ELSE IF childCount > 0 THEN Reply("deleteCategory", id, Null, "HasChildren")
     ELSE /\ ids' = ids \ {id}
          /\ category' = hook.category
          /\ last' = Response("deleteCategory", id, Null,
                              IF hook.hang THEN "hang" ELSE "ok")
          /\ UNCHANGED <<nextId, pids, product, moves, walker, faulty>> /\ view' = NoView

\* exports.reassignCategoryProducts: Product.updateMany on the single
\* `category` field (no hooks run), then the two counts of the answer.
ReassignCategoryProducts(sourceCategoryId, targetCategoryId) ==
  LET matched == {p \in pids : product[p].category = sourceCategoryId}
      modified == IF sourceCategoryId = targetCategoryId THEN {} ELSE matched
      result == [p \in Prods |->
                   IF p \in matched
                   THEN [product[p] EXCEPT !.category = targetCategoryId]
                   ELSE product[p]]
      sourceProductCount ==
        Cardinality({p \in pids : result[p].category = sourceCategoryId})
      targetProductCount ==
        Cardinality({p \in pids : result[p].category = targetCategoryId})
  IN IF sourceCategoryId = Null \/ targetCategoryId = Null
     THEN Reply("reassignCategoryProducts", Null, Null, "BothRequired")
     ELSE IF sourceCategoryId \notin ids \/ targetCategoryId \notin ids
     THEN Reply("reassignCategoryProducts", Null, Null, "CategoryNotFound")
     ELSE /\ product' = result
          /\ last' = Response("reassignCategoryProducts", Null, Null, "ok")
          /\ view' = [op |-> "reassignCategoryProducts",
                      res |-> <<Cardinality(modified), sourceProductCount,
                                targetProductCount>>]
          /\ UNCHANGED <<ids, nextId, category, pids, moves, walker, faulty>>

\* Sequences over S of length 0..n.
RECURSIVE Orders(_, _)
Orders(S, n) ==
  IF n = 0 THEN {<<>>}
  ELSE LET shorter == Orders(S, n - 1)
       IN shorter \cup
          {Append(o, k) : o \in {x \in shorter : Len(x) = n - 1}, k \in S}

NoRepeat(o) == \A i, j \in 1..Len(o) : i # j => o[i] # o[j]

\* updateMany({ _id: { $in: categoryIds } }, { $set: updateData }) with one
\* field in updateData: document after document in the order the store visits
\* them; a unique-index violation ends the command and keeps what was written.
SetField(doc, field, value) ==
  CASE field = "parentCategory" -> [doc EXCEPT !.parentCategory = value]
    [] field = "name" -> [doc EXCEPT !.name = value]
    [] field = "isActive" -> [doc EXCEPT !.isActive = value]
    [] field = "productCountReal" -> [doc EXCEPT !.productCountReal = value]

RECURSIVE updateMany(_, _, _, _, _)
updateMany(cat, I, order, field, value) ==
  IF order = <<>> THEN [category |-> cat, err |-> FALSE]
  ELSE IF Head(order) \notin I THEN updateMany(cat, I, Tail(order), field, value)
  ELSE LET cat1 == [cat EXCEPT ![Head(order)] = SetField(@, field, value)]
       IN IF ~UniqueIndexesAllow(cat1, I, Head(order))
          THEN [category |-> cat, err |-> TRUE]
          ELSE updateMany(cat1, I, Tail(order), field, value)

\* exports.bulkUpdateCategories: an empty list or a list holding a value
\* that is no ObjectId is refused as a whole before anything is written.
BulkUpdateCategories(order, field, value) ==
  LET result == updateMany(category, ids, order, field, value)
  IN IF order = <<>>
     THEN Reply("bulkUpdateCategories", Null, Null, "CategoryIdsRequired")
     ELSE IF \E i \in 1..Len(order) : order[i] = Malformed
     THEN Reply("bulkUpdateCategories", Null, Null, "InvalidCategoryIds")
     ELSE /\ category' = result.category
          /\ last' = Response("bulkUpdateCategories", Null, Null,
                              IF result.err THEN "Error" ELSE "ok")
          /\ UNCHANGED <<ids, nextId, pids, product, moves, walker, faulty>> /\ view' = NoView

(* ------------------------ server category routes ----------------------- *)
InSeq(x, s) == \E i \in 1..Len(s) : s[i] = x

\* updateCategoryProductCount without its try and catch: an error of the
\* store leaves the function, and the route that awaits it does not get to
\* its answer (TRUE).
RECURSIVE updateCategoryProductCountNoCatch(_, _, _, _)
updateCategoryProductCountNoCatch(cat, I, categoryId, fuel) ==
  IF categoryId = Null THEN FALSE
  ELSE IF faulty THEN TRUE
  ELSE IF fuel = 0 THEN TRUE
  ELSE IF categoryId \notin I THEN FALSE
  ELSE updateCategoryProductCountNoCatch(cat, I, cat[categoryId].parentCategory,
                                         fuel - 1)

\* updateCategoryProductCount(categoryId) of the server: counts the active
\* products whose categories array holds the id, writes the number to
\* `productCount` (a virtual of the Category schema, so the update stores no
\* count), then calls itself on the parent. TRUE when the calls never end.
\* An error the store raises is caught and logged, and the function returns.
RECURSIVE updateCategoryProductCount(_, _, _, _)
updateCategoryProductCount(cat, I, categoryId, fuel) ==
  IF categoryId = Null THEN FALSE
  ELSE IF faulty THEN FALSE
  ELSE IF fuel = 0 THEN TRUE
  ELSE IF categoryId \notin I THEN FALSE
  ELSE updateCategoryProductCount(cat, I, cat[categoryId].parentCategory, fuel - 1)

\* app.post("/api/categories")
ServerCreateCategory(nameIn, parentCategory) ==
  LET name == trim(nameIn)
      existingCategory == \E k \in ids : category[k].name = name
  IN IF name = <<>>
     THEN Reply("POST /api/categories", Null, parentCategory, "InvalidName")
     ELSE IF existingCategory
     THEN Reply("POST /api/categories", Null, parentCategory, "DuplicateName")
     ELSE Insert("POST /api/categories", parentCategory,
                 [NoCategory EXCEPT !.name = name, !.parentCategory = parentCategory],
                 "Error")

\* app.put("/api/categories/:id")
ServerUpdateCategory(id, nameIn, parentIn, activeIn) ==
  LET cur == category[id]
      arg == IF Given(parentIn) THEN Val(parentIn) ELSE Null
      existingCategory ==
        \E k \in ids \ {id} : category[k].name = trim(Val(nameIn))
      doc == [cur EXCEPT
                !.name = IF Given(nameIn) THEN trim(Val(nameIn)) ELSE @,
                !.parentCategory = IF Given(parentIn) THEN Val(parentIn) ELSE @,
                !.isActive = IF Given(activeIn) THEN Val(activeIn) ELSE @]
      s == save(category, ids, product, pids, id, doc)
      after == updateCategoryProductCount(s.category, ids, id, MaxCats + 1)
  IN IF id \notin ids THEN Reply("PUT /api/categories", id, arg, "CategoryNotFound")
     ELSE IF Given(nameIn) /\ trim(Val(nameIn)) = <<>>
     THEN Reply("PUT /api/categories", id, arg, "InvalidName")
     ELSE IF Given(nameIn) /\ existingCategory
     THEN Reply("PUT /api/categories", id, arg, "DuplicateName")
     ELSE /\ category' = s.category
          /\ last' = Response("PUT /api/categories", id, arg,
                              CASE s.res \in {"E11000", "ValidationError"} -> "Error"
                                [] s.res = "hang" -> "hang"
                                [] OTHER -> IF after THEN "hang" ELSE "ok")
          /\ UNCHANGED <<ids, nextId, pids, product, moves, walker, faulty>> /\ view' = NoView

\* app.delete("/api/categories/:id")
ServerDeleteCategory(id) ==
  LET childCount == Cardinality({k \in ids : category[k].parentCategory = id})
      productCount == Cardinality({p \in pids : /\ InSeq(id, product[p].categories)
                                                /\ product[p].isActive})
      gone == [category EXCEPT ![id] = NoCategory]
      after == updateCategoryProductCount(gone, ids \ {id},
                                          category[id].parentCategory, MaxCats + 1)
  IN IF id \notin ids THEN Reply("DELETE /api/categories", id, Null, "CategoryNotFound")
     ELSE IF childCount > 0 THEN Reply("DELETE /api/categories", id, Null, "HasChildren")
     ELSE IF productCount > 0 THEN Reply("DELETE /api/categories", id, Null, "HasProducts")
     ELSE /\ ids' = ids \ {id}
          /\ category' = gone
          /\ last' = Response("DELETE /api/categories", id, Null,
                              IF after THEN "hang" ELSE "ok")
          /\ UNCHANGED <<nextId, pids, product, moves, walker, faulty>> /\ view' = NoView

(* ------------------------ server product routes ----------------------- *)
\* [...new Set(list)]: the first occurrence of every element, in order.
RECURSIVE NewSet(_)
NewSet(s) ==
  IF s = <<>> THEN <<>>
  ELSE LET front == NewSet(SubSeq(s, 1, Len(s) - 1))
       IN IF InSeq(s[Len(s)], front) THEN front ELSE Append(front, s[Len(s)])

\* list.splice(list.indexOf(x), 1)
Splice(s, x) ==
  LET index == CHOOSE i \in 1..Len(s) : s[i] = x /\ \A j \in 1..(i - 1) : s[j] # x
  IN SubSeq(s, 1, index - 1) \o SubSeq(s, index + 1, Len(s))

\* productSchema.pre("save"): categories without duplicates; category follows
\* the first of them when it is not set.
productPreSave(doc) ==
  LET categories == NewSet(doc.categories)
  IN [doc EXCEPT !.categories = categories,
                 !.category = IF Len(categories) > 0 /\ doc.category = Null
                              THEN categories[1] ELSE @]

\* for (const catId of list) await updateCategoryProductCount(catId):
\* TRUE when one of the calls never ends.
UpdateCountsOf(cat, I, list) ==
  \E i \in 1..Len(list) : updateCategoryProductCount(cat, I, list[i], MaxCats + 1)

\* app.post("/api/admin/products"); legacy is the `category` field of the body.
ServerCreateProduct(cats, legacy, isActive) ==
  LET withLegacy == IF legacy # Null /\ ~InSeq(legacy, cats)
                    THEN Append(cats, legacy) ELSE cats
      productCategories == NewSet(withLegacy)
      doc == productPreSave(
               [categories |-> productCategories,
                category |-> IF Len(productCategories) > 0
                             THEN productCategories[1] ELSE Null,
                isActive |-> isActive])
      id == CHOOSE q \in Prods \ pids : \A r \in Prods \ pids : q <= r
  IN /\ Prods \ pids # {}
     /\ pids' = pids \cup {id}
     /\ product' = [product EXCEPT ![id] = doc]
     /\ last' = Response("POST /api/admin/products", Null, Null,
                         IF UpdateCountsOf(category, ids, productCategories)
                         THEN "hang" ELSE "ok")
     /\ UNCHANGED <<ids, nextId, category, moves, walker, faulty>> /\ view' = NoView

\* app.put("/api/admin/products/:id"); categories, category (legacy) and
\* isActive are each optional in the body.
ServerUpdateProduct(id, catsIn, legacyIn, activeIn) ==
  LET cur == product[id]
      oldCategories == cur.categories
      legacy == IF Given(legacyIn) THEN Val(legacyIn) ELSE Null
      newCategories == IF legacy # Null /\ ~InSeq(legacy, Val(catsIn))
                       THEN Append(Val(catsIn), legacy) ELSE Val(catsIn)
      withCategories ==
        IF Given(catsIn)
        THEN [cur EXCEPT !.categories = NewSet(newCategories),
                         !.category = IF Len(NewSet(newCategories)) > 0
                                      THEN NewSet(newCategories)[1] ELSE Null]
        ELSE IF Given(legacyIn)
        THEN IF legacy # Null
             THEN [cur EXCEPT !.categories = IF InSeq(legacy, @) THEN @
                                             ELSE Append(@, legacy),
                              !.category = legacy]
             ELSE [cur EXCEPT !.category = Null]
        ELSE cur
      doc == productPreSave(
               [withCategories EXCEPT
                  !.isActive = IF Given(activeIn) THEN Val(activeIn) ELSE @])
      allAffectedCategories == NewSet(oldCategories \o doc.categories)
  IN IF id \notin pids
     THEN Reply("PUT /api/admin/products", Null, Null, "ProductNotFound")
     ELSE /\ product' = [product EXCEPT ![id] = doc]
          /\ last' = Response("PUT /api/admin/products", Null, Null,
                              IF UpdateCountsOf(category, ids, allAffectedCategories)
                              THEN "hang" ELSE "ok")
          /\ UNCHANGED <<ids, nextId, category, pids, moves, walker, faulty>> /\ view' = NoView

\* app.delete("/api/admin/products/:id"): the product is kept, inactive.
ServerDeleteProduct(id) ==
  IF id \notin pids THEN Reply("DELETE /api/admin/products", Null, Null, "ProductNotFound")
  ELSE /\ product' = [product EXCEPT
                        ![id] = productPreSave([@ EXCEPT !.isActive = FALSE])]
       /\ last' = Response("DELETE /api/admin/products", Null, Null,
                           IF UpdateCountsOf(category, ids, product[id].categories)
                           THEN "hang" ELSE "ok")
       /\ UNCHANGED <<ids, nextId, category, pids, moves, walker, faulty>> /\ view' = NoView

\* app.post("/api/admin/products/:productId/link-category/:categoryId")
ServerLinkCategory(productId, categoryId) ==
  IF productId \notin pids
  THEN Reply("link-category", Null, Null, "ProductNotFound")
  ELSE IF categoryId \notin ids
  THEN Reply("link-category", Null, Null, "CategoryNotFound")
  ELSE IF InSeq(categoryId, product[productId].categories)
  THEN Reply("link-category", Null, Null, "ok")
  ELSE /\ product' = [product EXCEPT ![productId] =
                        productPreSave([@ EXCEPT !.categories = Append(@, categoryId)])]
       /\ last' = Response("link-category", Null, Null,
                           IF updateCategoryProductCount(category, ids, categoryId,
                                                         MaxCats + 1)
                           THEN "hang" ELSE "ok")
       /\ UNCHANGED <<ids, nextId, category, pids, moves, walker, faulty>> /\ view' = NoView

\* The unlink route without its test index > -1: splice(-1, 1) takes the last
\* element away when the category is not in the list.
ServerUnlinkCategoryNoGuard(productId, categoryId) ==
  IF productId \notin pids
  THEN Reply("unlink-category", Null, Null, "ProductNotFound")
  ELSE IF categoryId \notin ids
  THEN Reply("unlink-category", Null, Null, "CategoryNotFound")
  ELSE /\ product' = [product EXCEPT ![productId] =
                        productPreSave(
                          [@ EXCEPT !.categories =
                             IF InSeq(categoryId, @) THEN Splice(@, categoryId)
                             ELSE SubSeq(@, 1, Len(@) - 1)])]
       /\ last' = Response("unlink-category", Null, Null,
                           IF updateCategoryProductCount(category, ids, categoryId,
                                                         MaxCats + 1)
                           THEN "hang" ELSE "ok")
       /\ UNCHANGED <<ids, nextId, category, pids, moves, walker, faulty>> /\ view' = NoView

\* app.delete("/api/admin/products/:productId/unlink-category/:categoryId")
ServerUnlinkCategory(productId, categoryId) ==
  IF productId \notin pids
  THEN Reply("unlink-category", Null, Null, "ProductNotFound")
  ELSE IF categoryId \notin ids
  THEN Reply("unlink-category", Null, Null, "CategoryNotFound")
  ELSE IF ~InSeq(categoryId, product[productId].categories)
  THEN Reply("unlink-category", Null, Null, "ok")
  ELSE /\ product' = [product EXCEPT ![productId] =
                        productPreSave([@ EXCEPT !.categories = Splice(@, categoryId)])]
       /\ last' = Response("unlink-category", Null, Null,
                           IF updateCategoryProductCount(category, ids, categoryId,
                                                         MaxCats + 1)
                           THEN "hang" ELSE "ok")
       /\ UNCHANGED <<ids, nextId, category, pids, moves, walker, faulty>> /\ view' = NoView

\* The loop of the link-products route over productIds, in order: the
\* products after it and one result per id.
RECURSIVE LinkProducts(_, _, _)
LinkProducts(prod, categoryId, productIds) ==
  IF productIds = <<>> THEN [product |-> prod, results |-> <<>>]
  ELSE LET productId == Head(productIds)
           outcome ==
             IF productId = Malformed THEN "Invalid product ID format"
             ELSE IF productId \notin pids THEN "Product not found"
             ELSE IF InSeq(categoryId, prod[productId].categories)
             THEN "Already linked"
             ELSE "Linked successfully"
           saved ==
             IF outcome = "Linked successfully"
             THEN [prod EXCEPT ![productId] =
                     productPreSave([@ EXCEPT !.categories = Append(@, categoryId)])]
             ELSE prod
           rest == LinkProducts(saved, categoryId, Tail(productIds))
       IN [product |-> rest.product,
           results |-> <<[productId |-> productId, outcome |-> outcome]>>
                         \o rest.results]

HowMany(results, outcomes) ==
  Cardinality({i \in 1..Len(results) : results[i].outcome \in outcomes})

\* app.post("/api/admin/categories/:categoryId/link-products")
ServerLinkProducts(categoryId, productIds) ==
  LET done == LinkProducts(product, categoryId, productIds)
  IN IF categoryId = Malformed
     THEN Reply("link-products", Null, Null, "InvalidCategoryId")
     ELSE IF productIds = <<>>
     THEN Reply("link-products", Null, Null, "NoProductIds")
     ELSE IF categoryId \notin ids
     THEN Reply("link-products", Null, Null, "CategoryNotFound")
     ELSE /\ product' = done.product
          /\ last' = Response("link-products", Null, Null,
                              IF updateCategoryProductCount(category, ids, categoryId,
                                                            MaxCats + 1)
                              THEN "hang" ELSE "ok")
          /\ view' = [op |-> "link-products",
                      res |-> <<done.results,
                                HowMany(done.results, {"Linked successfully"}),
                                HowMany(done.results, {"Already linked"}),
                                HowMany(done.results, {"Invalid product ID format",
                                                       "Product not found"})>>]
          /\ UNCHANGED <<ids, nextId, category, pids, moves, walker, faulty>>

\* The store starts, and stops, raising an error on the calls a count
\* recomputation makes.
StoreFails ==
  /\ ~faulty
  /\ faulty' = TRUE
  /\ UNCHANGED <<ids, nextId, category, pids, product, last, moves, walker>>
  /\ view' = NoView

StoreMends ==
  /\ faulty
  /\ faulty' = FALSE
  /\ UNCHANGED <<ids, nextId, category, pids, product, last, moves, walker>>
  /\ view' = NoView

(* ------------------- methods of the Product model ----------------------- *)
\* removeCategory with the splice alone: the main category is left as it is.
removeCategorySpliceOnly(doc, categoryId) ==
  IF InSeq(categoryId, doc.categories)
  THEN [doc EXCEPT !.categories = Splice(@, categoryId)]
  ELSE doc

\* productSchema.methods.addCategory
addCategory(doc, categoryId) ==
  LET pushed == IF ~InSeq(categoryId, doc.categories)
                THEN [doc EXCEPT !.categories = Append(@, categoryId)]
                ELSE doc
  IN IF pushed.category = Null
     THEN [pushed EXCEPT !.category = categoryId]
     ELSE pushed

\* productSchema.methods.removeCategory
removeCategory(doc, categoryId) ==
  LET spliced == IF InSeq(categoryId, doc.categories)
                 THEN [doc EXCEPT !.categories = Splice(@, categoryId)]
                 ELSE doc
  IN IF spliced.category = categoryId /\ Len(spliced.categories) > 0
     THEN [spliced EXCEPT !.category = spliced.categories[1]]
     ELSE IF spliced.category = categoryId /\ Len(spliced.categories) = 0
     THEN [spliced EXCEPT !.category = Null]
     ELSE spliced

\* product.addCategory(categoryId) on a document in memory.
AddCategory(p, categoryId) ==
  /\ p \in pids
  /\ product' = [product EXCEPT ![p] = addCategory(@, categoryId)]
  /\ last' = Response("addCategory", Null, Null, "ok")
  /\ UNCHANGED <<ids, nextId, category, pids, moves, walker, faulty>>
  /\ view' = NoView

\* product.removeCategory(categoryId) on a document in memory.
RemoveCategory(p, categoryId) ==
  /\ p \in pids
  /\ product' = [product EXCEPT ![p] = removeCategory(@, categoryId)]
  /\ last' = Response("removeCategory", Null, Null, "ok")
  /\ UNCHANGED <<ids, nextId, category, pids, moves, walker, faulty>>
  /\ view' = NoView

(* ------------------- walks up the parent chain, by step ----------------- *)
\* A walk is served one call at a time; `seen` is the set of the categories
\* it has put on its path or counted so far, `calls` the number of calls it
\* has made on a parent, modulo MaxCalls.
StartWalk(op, id) ==
  /\ walker.pc # "walking"
  /\ walker' = [pc |-> "walking", op |-> op, at |-> id, seen |-> {}, calls |-> 0]
  /\ UNCHANGED <<ids, nextId, category, pids, product, last, moves, faulty>> /\ view' = NoView

\* exports.getCategoryPath: one call of its getPath(categoryId, path).
GetPathStep ==
  /\ walker.pc = "walking" /\ walker.op = "getCategoryPath"
  /\ walker' =
       IF walker.at \notin ids THEN [walker EXCEPT !.pc = "returned"]
       ELSE IF category[walker.at].parentCategory # Null
       THEN [walker EXCEPT !.seen = @ \cup {walker.at},
                           !.calls = (@ + 1) % MaxCalls,
                           !.at = category[walker.at].parentCategory]
       ELSE [walker EXCEPT !.seen = @ \cup {walker.at}, !.pc = "returned"]
  /\ UNCHANGED <<ids, nextId, category, pids, product, last, moves, faulty>> /\ view' = NoView

\* One call of the server's updateCategoryProductCount(categoryId): the count,
\* the update that stores none of it, the read of the category, and the call
\* on its parent when it has one.
UpdateCategoryProductCountStep ==
  /\ walker.pc = "walking" /\ walker.op = "updateCategoryProductCount"
  /\ walker' =
       IF walker.at = Null \/ walker.at \notin ids
       THEN [walker EXCEPT !.pc = "returned"]
       ELSE IF category[walker.at].parentCategory # Null
       THEN [walker EXCEPT !.seen = @ \cup {walker.at},
                           !.calls = (@ + 1) % MaxCalls,
                           !.at = category[walker.at].parentCategory]
       ELSE [walker EXCEPT !.seen = @ \cup {walker.at}, !.pc = "returned"]
  /\ UNCHANGED <<ids, nextId, category, pids, product, last, moves, faulty>> /\ view' = NoView

\* getPath of exports.getCategoryPath with path.push in place of
\* path.unshift: the path from the category up to the root.
RECURSIVE getPathPush(_, _, _, _, _)
getPathPush(cat, I, categoryId, path, fuel) ==
  IF fuel = 0 THEN <<Bottom>>
  ELSE IF categoryId \notin I THEN path
  ELSE IF cat[categoryId].parentCategory # Null
  THEN getPathPush(cat, I, cat[categoryId].parentCategory,
                   Append(path, categoryId), fuel - 1)
  ELSE Append(path, categoryId)

\* getPath(categoryId, path) of exports.getCategoryPath: the category is put
\* in front of the path and the walk goes on with its parent; <<Bottom>>
\* when the walk never ends.
RECURSIVE getPath(_, _, _, _, _)
getPath(cat, I, categoryId, path, fuel) ==
  IF fuel = 0 THEN <<Bottom>>
  ELSE IF categoryId \notin I THEN path
  ELSE IF cat[categoryId].parentCategory # Null
  THEN getPath(cat, I, cat[categoryId].parentCategory,
               <<categoryId>> \o path, fuel - 1)
  ELSE <<categoryId>> \o path

\* exports.getCategoryPath, served in one piece.
GetCategoryPath(id) ==
  LET path == getPath(category, ids, id, <<>>, MaxCats + 1)
  IN /\ last' = Response("getCategoryPath", Null, Null,
                         IF path = <<Bottom>> THEN "hang" ELSE "ok")
     /\ view' = [op |-> "getCategoryPath",
                 res |-> IF path = <<Bottom>> THEN <<>> ELSE path]
     /\ UNCHANGED <<ids, nextId, category, pids, product, moves, walker, faulty>>

(* ------------------------- counts of all categories -------------------- *)
\* Product.countDocuments({ categories: categoryId, isActive: true })
CountInCategories(prod, P, categoryId) ==
  Cardinality({p \in P : InSeq(categoryId, prod[p].categories) /\ prod[p].isActive})

\* The server's updateAllCategoryProductCounts: a category counts as updated
\* when its productCount virtual (productCountReal || 0) is not the number of
\* active products that list it; the update writes `productCount`, the
\* virtual, so no stored count changes. The answer: total and updated.
updateAllCategoryProductCounts(cat, I, prod, P) ==
  LET differing == {k \in I : cat[k].productCountReal # CountInCategories(prod, P, k)}
  IN [category |-> cat, totalCategories |-> Cardinality(I),
      updated |-> Cardinality(differing), hang |-> FALSE]

\* app.post("/api/admin/categories/update-counts")
ServerUpdateCounts ==
  LET result == updateAllCategoryProductCounts(category, ids, product, pids)
  IN /\ category' = result.category
     /\ last' = Response("update-counts", Null, Null, "ok")
     /\ view' = [op |-> "update-counts",
                 res |-> <<result.totalCategories, result.updated>>]
     /\ UNCHANGED <<ids, nextId, pids, product, moves, walker, faulty>>

\* Category.updateAllProductCounts(): both counts of every category computed
\* by calculateProductCount and written where either differs from the stored
\* one; it never returns when a descendant walk never returns.
updateAllProductCounts(cat, I, prod, P) ==
  LET productCount(k) == calculateProductCount(cat, I, prod, P, k, FALSE)
      totalProductCount(k) == calculateProductCount(cat, I, prod, P, k, TRUE)
      differing == {k \in I : \/ cat[k].productCountReal # productCount(k)
                              \/ cat[k].totalProductCount # totalProductCount(k)}
  IN IF \E k \in I : totalProductCount(k) = Bottom
     THEN [category |-> cat, totalCategories |-> Cardinality(I),
           updated |-> 0, hang |-> TRUE]
     ELSE [category |-> [k \in Cats |->
                          IF k \in differing
                          THEN [cat[k] EXCEPT !.productCountReal = productCount(k),
                                              !.totalProductCount = totalProductCount(k)]
                          ELSE cat[k]],
           totalCategories |-> Cardinality(I),
           updated |-> Cardinality(differing), hang |-> FALSE]

\* A maintenance call of Category.updateAllProductCounts().
UpdateAllProductCounts ==
  LET result == updateAllProductCounts(category, ids, product, pids)
  IN /\ category' = result.category
     /\ last' = Response("updateAllProductCounts", Null, Null,
                         IF result.hang THEN "hang" ELSE "ok")
     /\ view' = IF result.hang THEN NoView
                ELSE [op |-> "updateAllProductCounts",
                      res |-> <<result.totalCategories, result.updated>>]
     /\ UNCHANGED <<ids, nextId, pids, product, moves, walker, faulty>>

(* ------------------------------ tree reader ----------------------------- *)
\* The code unit of a character, for sort({ name: 1 }).
CharCode(ch) ==
  CASE ch = " " -> 32 [] ch = "+" -> 43 [] ch = "-" -> 45 [] ch = "A" -> 65
    [] ch = "a" -> 97 [] ch = "b" -> 98 [] ch = "c" -> 99

\* s sorts before t: the comparison of two strings, character by character.
RECURSIVE StringLess(_, _)
StringLess(s, t) ==
  IF t = <<>> THEN FALSE
  ELSE IF s = <<>> THEN TRUE
  ELSE IF CharCode(Head(s)) # CharCode(Head(t))
  THEN CharCode(Head(s)) < CharCode(Head(t))
  ELSE StringLess(Tail(s), Tail(t))

\* find(query).sort({ name: 1 }): the ids of S by name, ids breaking ties.
RECURSIVE SortByName(_, _)
SortByName(cat, S) ==
  IF S = {} THEN <<>>
  ELSE LET first == CHOOSE k \in S : \A j \in S \ {k} :
                      \/ StringLess(cat[k].name, cat[j].name)
                      \/ (~StringLess(cat[j].name, cat[k].name) /\ k < j)
       IN <<first>> \o SortByName(cat, S \ {first})

RECURSIVE Flatten(_)
Flatten(lists) ==
  IF lists = <<>> THEN <<>> ELSE Head(lists) \o Flatten(Tail(lists))

\* The categories find() returns for { parentCategory: parentId }, sorted.
ChildrenOf(cat, I, parentId, activeOnly) ==
  SortByName(cat, {k \in I : /\ cat[k].parentCategory = parentId
                             /\ (activeOnly => cat[k].isActive)})

\* The categories under parentId alone, with no children of theirs.
buildCategoryTreeOneLevel(cat, I, parentId, activeOnly, fuel) ==
  ChildrenOf(cat, I, parentId, activeOnly)

\* getCategoryTree's buildCategoryTree(parentId): the nodes of the answer in
\* the order they are laid out, every node followed by its children's nodes.
\* <<Bottom>> stands for a recursion that never returns.
RECURSIVE buildCategoryTree(_, _, _, _, _)
buildCategoryTree(cat, I, parentId, activeOnly, fuel) ==
  IF fuel = 0 THEN <<Bottom>>
  ELSE LET categories == ChildrenOf(cat, I, parentId, activeOnly)
       IN Flatten([i \in 1..Len(categories) |->
                     <<categories[i]>> \o
                     buildCategoryTree(cat, I, categories[i], activeOnly, fuel - 1)])

\* exports.getCategoryTree
GetCategoryTree(activeOnly) ==
  /\ view' = [op |-> "getCategoryTree",
              res |-> buildCategoryTree(category, ids, Null, activeOnly, MaxCats + 1)]
  /\ last' = Response("getCategoryTree", Null, Null, "ok")
  /\ UNCHANGED <<ids, nextId, category, pids, product, moves, walker, faulty>>

(* --------------------------- specifications ---------------------------- *)
\* The ObjectIds a request can name: those handed out so far, in the
\* collection or deleted from it.
Known == 1..(nextId - 1)
ParentInputs == Known \cup {Null}
SomeParent == {<<p>> : p \in ParentInputs}
BulkOrders == {o \in Orders(Known, MaxOrder) : o # <<>> /\ NoRepeat(o)}
\* Three names with three different slugs.
TreeNames == { <<"a">>, <<"b">>, <<"c">> }

\* The shape of the tree: every request that creates, reparents or deletes.
NextTree ==
  \/ \E n \in TreeNames, p \in ParentInputs : CreateCategory(n, p)
  \/ \E n \in TreeNames : AddRootCategory(n)
  \/ \E n \in TreeNames, p \in ParentInputs : ServerCreateCategory(n, p)
  \/ \E id \in Known, p \in SomeParent : UpdateCategory(id, <<>>, p, <<>>)
  \/ \E id \in Known, p \in SomeParent : ServerUpdateCategory(id, <<>>, p, <<>>)
  \/ \E id \in Known, p \in ParentInputs : MoveCategory(id, p)
  \/ \E id \in Known : DeleteCategory(id)
  \/ \E id \in Known : ServerDeleteCategory(id)
  \/ \E o \in BulkOrders, p \in ParentInputs : BulkUpdateCategories(o, "parentCategory", p)

SpecTree == Init /\ [][NextTree]_vars

OptName == {<<>>} \cup {<<n>> : n \in NameInputs}
OptParent == {<<>>} \cup SomeParent

\* Names and levels: create, rename, update and move, one request at a time.
NextCrud ==
  \/ \E n \in NameInputs, p \in ParentInputs : CreateCategory(n, p)
  \/ \E n \in NameInputs : AddRootCategory(n)
  \/ \E n \in NameInputs, p \in ParentInputs : ServerCreateCategory(n, p)
  \/ \E id \in Known, n \in OptName, p \in OptParent : UpdateCategory(id, n, p, <<>>)
  \/ \E id \in Known, n \in OptName, p \in OptParent :
        ServerUpdateCategory(id, n, p, <<>>)
  \/ \E id \in Known, p \in ParentInputs : MoveCategory(id, p)

SpecCrud == Init /\ [][NextCrud]_vars

\* Two moveCategory requests served side by side on a tree built by
\* createCategory.
NextMove ==
  \/ \E n \in TreeNames, p \in ParentInputs : CreateCategory(n, p)
  \/ \E m \in Movers, id \in Known, p \in ParentInputs : MoveValidate(m, id, p)
  \/ \E m \in Movers : MoveWrite(m)

SpecMove == Init /\ [][NextMove]_vars

CatLists == {o \in Orders(Known, MaxCats - 1) : NoRepeat(o)}
CountInputs == 0..MaxProds
\* Two names with two different slugs.
CountNames == { <<"a">>, <<"b">> }

OptCatList == {<<>>} \cup {<<l>> : l \in CatLists}
OptLegacy == {<<>>} \cup SomeParent
OptActive == {<<>>, <<TRUE>>, <<FALSE>>}

\* Products and counts: categories made, switched on and off and moved;
\* products made, linked, unlinked and deleted.
NextCount ==
  \/ \E n \in CountNames, p \in ParentInputs : CreateCategory(n, p)
  \/ \E id \in Known, b \in BOOLEAN : UpdateCategory(id, <<>>, <<>>, <<b>>)
  \/ \E id \in Known, p \in ParentInputs : MoveCategory(id, p)
  \/ \E cats \in CatLists, legacy \in ParentInputs, b \in BOOLEAN :
        ServerCreateProduct(cats, legacy, b)
  \/ \E p \in Prods : ServerDeleteProduct(p)
  \/ \E p \in Prods, c \in Known : ServerLinkCategory(p, c)
  \/ \E p \in Prods, c \in Known : ServerUnlinkCategory(p, c)

SpecCount == Init /\ [][NextCount]_vars

\* Stored counts under bulk updates: categories made and moved, products
\* made, and bulkUpdateCategories with a count field in its updateData.
NextBulk ==
  \/ \E n \in CountNames, p \in ParentInputs : CreateCategory(n, p)
  \/ \E id \in Known, p \in ParentInputs : MoveCategory(id, p)
  \/ \E cats \in CatLists : ServerCreateProduct(cats, Null, TRUE)
  \/ \E o \in BulkOrders, v \in CountInputs :
        BulkUpdateCategories(o, "productCountReal", v)

SpecBulk == Init /\ [][NextBulk]_vars

\* The product routes on their own, over categories made by createCategory.
NextProduct ==
  \/ \E n \in CountNames, p \in ParentInputs : CreateCategory(n, p)
  \/ \E cats \in CatLists, legacy \in ParentInputs, b \in BOOLEAN :
        ServerCreateProduct(cats, legacy, b)
  \/ \E p \in Prods, cats \in OptCatList, legacy \in OptLegacy, b \in OptActive :
        ServerUpdateProduct(p, cats, legacy, b)
  \/ \E p \in Prods : ServerDeleteProduct(p)
  \/ \E p \in Prods, c \in Known : ServerLinkCategory(p, c)
  \/ \E p \in Prods, c \in Known : ServerUnlinkCategory(p, c)

SpecProduct == Init /\ [][NextProduct]_vars

\* Counts across a move: three categories, products put into one of them and
\* categories moved (a move to the parent a category already has refreshes
\* the stored counts of both).
NextShift ==
  \/ \E n \in TreeNames, p \in ParentInputs : CreateCategory(n, p)
  \/ \E id \in Known, p \in ParentInputs : MoveCategory(id, p)
  \/ \E c \in Known : ServerCreateProduct(<<c>>, Null, TRUE)

SpecShift == Init /\ [][NextShift]_vars

\* Deleting categories that products point at: two categories, one product
\* written through the product routes, and both delete handlers.
NextDelete ==
  \/ \E n \in CountNames, p \in ParentInputs : CreateCategory(n, p)
  \/ \E cats \in CatLists, legacy \in ParentInputs, b \in BOOLEAN :
        ServerCreateProduct(cats, legacy, b)
  \/ \E p \in Prods : ServerDeleteProduct(p)
  \/ \E id \in Known : DeleteCategory(id)
  \/ \E id \in Known : ServerDeleteCategory(id)

SpecDelete == Init /\ [][NextDelete]_vars

\* Reassigning products: two categories, one product, a category save that
\* refreshes the stored counts, and the reassignment.
NextReassign ==
  \/ \E n \in CountNames, p \in ParentInputs : CreateCategory(n, p)
  \/ \E cats \in CatLists, legacy \in ParentInputs, b \in BOOLEAN :
        ServerCreateProduct(cats, legacy, b)
  \/ \E id \in Known, b \in BOOLEAN : UpdateCategory(id, <<>>, <<>>, <<b>>)
  \/ \E s \in ParentInputs, t \in ParentInputs : ReassignCategoryProducts(s, t)

SpecReassign == Init /\ [][NextReassign]_vars

\* Linking a list of products to a category: ids of products that exist, of
\* products that do not, and values that are no ids.
MaxBatch == 2
ProductIdInputs == Prods \cup {Malformed}
Batches == Orders(ProductIdInputs, MaxBatch)

NextLink ==
  \/ \E n \in CountNames, p \in ParentInputs : CreateCategory(n, p)
  \/ \E cats \in CatLists, b \in BOOLEAN : ServerCreateProduct(cats, Null, b)
  \/ \E c \in Known \cup {Malformed}, b \in Batches : ServerLinkProducts(c, b)

SpecLink == Init /\ [][NextLink]_vars

\* Updating a list of categories at once, the list holding ids of categories
\* and values that are no ids.
CategoryIdLists == {o \in Orders(Known \cup {Malformed}, MaxBatch) : NoRepeat(o)}

NextBatch ==
  \/ \E n \in TreeNames, p \in ParentInputs : CreateCategory(n, p)
  \/ \E o \in CategoryIdLists, b \in BOOLEAN : BulkUpdateCategories(o, "isActive", b)

SpecBatch == Init /\ [][NextBatch]_vars

\* Breadcrumbs: three categories created, moved and deleted, and the path
\* of a category asked for.
NextPath ==
  \/ \E n \in TreeNames, p \in ParentInputs : CreateCategory(n, p)
  \/ \E id \in Known, p \in ParentInputs : MoveCategory(id, p)
  \/ \E id \in Known : DeleteCategory(id)
  \/ \E n \in TreeNames, p \in ParentInputs : ServerCreateCategory(n, p)
  \/ \E id \in Known : GetCategoryPath(id)

SpecPath == Init /\ [][NextPath]_vars

\* Requests served while the store fails under the count recomputation.
NextFault ==
  \/ \E n \in CountNames, p \in ParentInputs : CreateCategory(n, p)
  \/ \E cats \in CatLists : ServerCreateProduct(cats, Null, TRUE)
  \/ \E p \in Prods, cats \in CatLists : ServerUpdateProduct(p, <<cats>>, <<>>, <<>>)
  \/ \E p \in Prods : ServerDeleteProduct(p)
  \/ \E p \in Prods, c \in Known : ServerLinkCategory(p, c)
  \/ \E p \in Prods, c \in Known : ServerUnlinkCategory(p, c)
  \/ \E id \in Known : DeleteCategory(id)
  \/ \E id \in Known : ServerDeleteCategory(id)
  \/ StoreFails
  \/ StoreMends

SpecFault == Init /\ [][NextFault]_vars

\* The Product model's methods on documents in memory: every product starts
\* with a list of categories without duplicates and a main category that is
\* unset or one of the list.
MaxListed == 2
Listings == {o \in Orders(Cats, MaxListed) : NoRepeat(o)}
StartDocs ==
  {[category |-> c, categories |-> o, isActive |-> b] :
     o \in Listings, c \in Cats \cup {Null}, b \in BOOLEAN}
  \ {d \in [category : Cats, categories : Listings, isActive : BOOLEAN] :
        ~InSeq(d.category, d.categories)}

InitDoc ==
  /\ ids = {}
  /\ nextId = 1
  /\ category = [c \in Cats |-> NoCategory]
  /\ pids = Prods
  /\ product \in [Prods -> StartDocs]
  /\ last = Response("none", Null, Null, "ok")
  /\ moves = [m \in Movers |-> NoMove]
  /\ walker = NoWalk
  /\ view = NoView
  /\ faulty = FALSE

NextDoc ==
  \/ \E p \in Prods, c \in Cats : AddCategory(p, c)
  \/ \E p \in Prods, c \in Cats : RemoveCategory(p, c)

SpecDoc == InitDoc /\ [][NextDoc]_vars

\* Counts of all categories put right: categories made and moved, products
\* made and deleted, then the update-counts request or the model's
\* updateAllProductCounts.
NextRecount ==
  \/ \E n \in CountNames, p \in ParentInputs : CreateCategory(n, p)
  \/ \E id \in Known, p \in ParentInputs : MoveCategory(id, p)
  \/ \E cats \in CatLists, legacy \in ParentInputs :
        ServerCreateProduct(cats, legacy, TRUE)
  \/ \E p \in Prods : ServerDeleteProduct(p)
  \/ ServerUpdateCounts
  \/ UpdateAllProductCounts

SpecRecount == Init /\ [][NextRecount]_vars

\* Reads of the tree: categories made, reparented by the server route (a
\* parent cycle among the results) and switched on and off.
NextView ==
  \/ \E n \in TreeNames, p \in ParentInputs : CreateCategory(n, p)
  \/ \E id \in Known, p \in SomeParent : ServerUpdateCategory(id, <<>>, p, <<>>)
  \/ \E id \in Known, b \in BOOLEAN : UpdateCategory(id, <<>>, <<>>, <<b>>)
  \/ \E b \in BOOLEAN : GetCategoryTree(b)

SpecView == Init /\ [][NextView]_vars

\* Walks on stored trees, a parent cycle among them: the tree changes only
\* while no walk is under way.
NextWalk ==
  \/ /\ walker.pc # "walking"
     /\ \/ \E n \in CountNames, p \in ParentInputs : CreateCategory(n, p)
        \/ \E id \in Known, p \in SomeParent : ServerUpdateCategory(id, <<>>, p, <<>>)
  \/ \E id \in Known : StartWalk("getCategoryPath", id)
  \/ \E id \in Known : StartWalk("updateCategoryProductCount", id)
  \/ GetPathStep
  \/ UpdateCategoryProductCountStep

\* A request under way is served on: each step of a walk is taken in the end.
SpecWalk ==
  /\ Init /\ [][NextWalk]_vars
  /\ WF_vars(GetPathStep) /\ WF_vars(UpdateCategoryProductCountStep)

(* ------------------------- the parent relation -------------------------- *)
\* Following parentCategory from c ends (at null or at a missing document)
\* within n steps.
RECURSIVE ChainEnds(_, _)
ChainEnds(c, n) ==
  IF c = Null \/ c \notin ids THEN TRUE
  ELSE IF n = 0 THEN FALSE
  ELSE ChainEnds(category[c].parentCategory, n - 1)

\* The categories below a: its children, their children, and so on.
RECURSIVE Below(_, _)
Below(S, n) ==
  IF n = 0 THEN S
  ELSE Below(S \cup {k \in ids : category[k].parentCategory \in S}, n - 1)

DescendantsOf(a) == Below({k \in ids : category[k].parentCategory = a}, MaxCats)

SameParents == \A k \in Cats : category'[k].parentCategory = category[k].parentCategory

\* C1: after any sequence of create, update, move, bulk-update and delete
\* requests the parent relation is acyclic: from every category the parent
\* chain ends without coming back, and no category is its own parent.
C1_ParentAcyclic == \A c \in ids : ChainEnds(c, MaxCats)

\* C3: moveCategory(id, newParentId) with newParentId another category that
\* lies below id, at any depth, answers CircularReference and changes no
\* category's parent.
C3_MoveBelowRejected ==
  [][(/\ last'.op = "moveCategory"
       /\ last'.id \in ids
       /\ last'.arg # last'.id
       /\ last'.arg \in DescendantsOf(last'.id))
         => (last'.res = "CircularReference" /\ SameParents)]_vars

\* A move under a grandchild was asked for and refused.
C3_Witness ==
  /\ last.op = "moveCategory" /\ last.res = "CircularReference"
  /\ last.id \in ids /\ last.arg \in ids
  /\ category[last.arg].parentCategory # last.id
  /\ category[category[last.arg].parentCategory].parentCategory = last.id

\* C2: two moveCategory requests on different categories, their reads and
\* their saves interleaved in any order, each past its own circular-reference
\* check: once both have saved, the parent relation is acyclic.
C2_ConcurrentMovesAcyclic ==
  (/\ \A m \in Movers : moves[m].pc = "done" /\ moves[m].res \in {"ok", "hang"}
   /\ moves[1].id # moves[2].id)
    => \A c \in ids : ChainEnds(c, MaxCats)

(* ---------------------------- sibling names ---------------------------- *)
\* C4: after any sequence of create, rename, update and move requests
\* (a move to root and an update of the parent alone among them) no two
\* categories with the same parent, or both at root, have names that are
\* equal once case is ignored.
C4_SiblingNamesUnique ==
  \A a, b \in ids :
    (a # b /\ category[a].parentCategory = category[b].parentCategory)
      => toLowerCase(category[a].name) # toLowerCase(category[b].name)

\* A move to root succeeded and left two categories side by side at root.
C4_Witness ==
  /\ last.op = "moveCategory" /\ last.res = "ok" /\ last.arg = Null
  /\ last.id \in ids
  /\ \E b \in ids \ {last.id} :
        category[b].parentCategory = Null /\ category[last.id].parentCategory = Null

\* The parents a create request can name that hold a document.
SiblingTaken(n, p) ==
  \E k \in ids : /\ category[k].parentCategory = p
                 /\ toLowerCase(category[k].name) = toLowerCase(trim(n))

\* The answers that tell the caller the name is taken.
NameTakenAnswers == {"DuplicateSiblingName", "DuplicateName", "DuplicateKey"}

\* C5: a create request whose name equals, ignoring case, the name of a
\* category already under the same parent is answered with a duplicate-name
\* error and adds no category, whichever create handler takes it.
C5_DuplicateCreateRejected ==
  [][\A n \in NameInputs, p \in ParentInputs :
       ((\/ CreateCategory(n, p)
         \/ ServerCreateCategory(n, p)
         \/ (p = Null /\ AddRootCategory(n)))
        /\ SiblingTaken(n, p))
          => (last'.res \in NameTakenAnswers /\ ids' = ids)]_vars

(* -------------------------------- counts -------------------------------- *)
\* The active products whose membership list holds d.
DirectInMembership(d) ==
  Cardinality({p \in pids : InSeq(d, product[p].categories) /\ product[p].isActive})

RECURSIVE SumDirect(_)
SumDirect(S) ==
  IF S = {} THEN 0
  ELSE LET d == CHOOSE x \in S : TRUE
       IN DirectInMembership(d) + SumDirect(S \ {d})

\* C6: for every category C the subtree count calculateProductCount computes
\* is the direct count of C plus the direct counts of all its descendants, an
\* active product counting once for each of these categories it belongs to.
C6_SubtreeIsSumOfDirect ==
  \A c \in ids :
    calculateProductCount(category, ids, product, pids, c, TRUE)
      = SumDirect({c} \cup DescendantsOf(c))

\* C7: in every reachable state the stored subtree count of every category
\* is at least its stored direct count.
C7_StoredSubtreeAtLeastDirect ==
  \A c \in ids : category[c].totalProductCount >= category[c].productCountReal

RECURSIVE Up(_, _)
Up(c, n) ==
  IF c = Null \/ c \notin ids \/ n = 0 THEN {}
  ELSE {c} \cup Up(category[c].parentCategory, n - 1)

\* c and its ancestors up to the root.
UpToRoot(c) == Up(c, MaxCats)

StoredIsLive(a) ==
  /\ category[a].productCountReal
       = calculateProductCount(category, ids, product, pids, a, FALSE)
  /\ category[a].totalProductCount
       = calculateProductCount(category, ids, product, pids, a, TRUE)

AllStoredLive(S) == \A c \in S : \A a \in UpToRoot(c) : StoredIsLive(a)

Members(list) == {list[i] : i \in 1..Len(list)}

\* C8: once a recompute has run to its end with nothing else going on (the
\* recompute of each category of a newly created product, the recompute a
\* moved category's save sets off), the stored direct and subtree counts of
\* the category and of each of its ancestors are the live ones.
C8_RecomputeStoresLive ==
  [][/\ (last'.op = "POST /api/admin/products" /\ last'.res = "ok")
        => \A p \in pids' \ pids : AllStoredLive(Members(product[p].categories))'
     /\ (last'.op = "moveCategory" /\ last'.res = "ok")
        => AllStoredLive({last.id})']_vars

(* ------------------------------ termination ---------------------------- *)
\* C9: a recompute started on any stored tree, one with a parent cycle
\* included, comes to an end: its upward cascade does not go round for ever.
C9_RecomputeTerminates ==
  (walker.pc = "walking" /\ walker.op = "updateCategoryProductCount")
    ~> (walker.pc # "walking")

\* C10: the breadcrumb walk of getCategoryPath, started on any id of any
\* stored tree, comes to an end.
C10_BreadcrumbTerminates ==
  (walker.pc = "walking" /\ walker.op = "getCategoryPath")
    ~> (walker.pc # "walking")

(* ------------------------------ tree reads ------------------------------ *)
InList(x, list) == \E i \in 1..Len(list) : list[i] = x

Occurrences(x, list) == Cardinality({i \in 1..Len(list) : list[i] = x})

\* The categories a walk down from the roots meets, through active
\* categories alone when activeOnly.
RECURSIVE DownFrom(_, _, _)
DownFrom(S, activeOnly, n) ==
  IF n = 0 THEN S
  ELSE DownFrom(S \cup {k \in ids : /\ category[k].parentCategory \in S
                                     /\ (activeOnly => category[k].isActive)},
                activeOnly, n - 1)

FromRoots(activeOnly) ==
  DownFrom({k \in ids : /\ category[k].parentCategory = Null
                        /\ (activeOnly => category[k].isActive)},
           activeOnly, MaxCats)

\* C11: getCategoryTree answers on every stored tree, a tree with a parent
\* cycle included, and its answer holds every category that can be reached
\* from a root exactly once, and no other.
C11_TreeReadTerminatesAndIsComplete ==
  [][\A b \in BOOLEAN :
       GetCategoryTree(b) =>
         /\ ~InList(Bottom, view'.res)
         /\ \A k \in ids : Occurrences(k, view'.res)
                              = IF k \in FromRoots(b) THEN 1 ELSE 0]_vars

\* The tree was read while two categories were each other's parent, and the
\* answer holds the one root beside them.
C11_Witness ==
  /\ view.op = "getCategoryTree" /\ Len(view.res) = 1
  /\ \E a, b \in ids : /\ a # b
                       /\ category[a].parentCategory = b
                       /\ category[b].parentCategory = a
                       /\ ~InList(a, view.res) /\ ~InList(b, view.res)

(* ---------------------------- recomputeAll ------------------------------ *)
RecomputeAllOps == {"update-counts", "updateAllProductCounts"}

\* C12: once a run of recomputeAll has come to its end, whatever the stored
\* counts were before it, the stored direct and subtree counts of every
\* category are the live ones.
C12_RecomputeAllHeals ==
  [][(last'.op \in RecomputeAllOps /\ last'.res = "ok")
       => (\A c \in ids : StoredIsLive(c))']_vars

\* C13: recomputeAll answers with the number of categories and the number of
\* categories it wrote, and a run that follows another run with nothing in
\* between writes nothing and answers updated = 0.
C13_RecomputeAllSummary ==
  [][(last'.op \in RecomputeAllOps /\ last'.res = "ok")
       => /\ view'.res[1] = Cardinality(ids)
          /\ view'.res[2] = Cardinality({c \in ids : category'[c] # category[c]})
          /\ (last.op = last'.op /\ last.res = "ok")
                => (view'.res[2] = 0 /\ category' = category)]_vars

(* ------------------------- counts after product writes ----------------- *)
ProductWrites ==
  {"POST /api/admin/products", "PUT /api/admin/products", "DELETE /api/admin/products"}

\* C14: after a product create, update or soft delete served alone, every
\* category in the product's old or new membership list stores as its direct
\* count the number of active products whose membership list holds it.
C14_ProductWriteRecounts ==
  [][(last'.op \in ProductWrites /\ last'.res = "ok")
       => \A p \in pids' :
            \A c \in (Members(product[p].categories)
                       \cup Members(product'[p].categories)) \cap ids :
              category'[c].productCountReal = CountInCategories(product', pids', c)]_vars

(* --------------------------- counts across a move ----------------------- *)
\* After the step the stored subtree count of a is the one
\* calculateProductCount gives.
SubtreeIsLiveAfter(a) ==
  category'[a].totalProductCount
    = calculateProductCount(category', ids', product', pids', a, TRUE)

\* C15: category B is moved from parent A to another parent D, all stored
\* counts being right before the move. After it the stored subtree count of
\* A is without the products of B's subtree, that of D is with them, and B's
\* own stored counts are what they were.
C15_MoveShiftsCounts ==
  [][(/\ last'.op = "moveCategory" /\ last'.res = "ok"
      /\ last'.id \in ids /\ last'.arg \in ids
      /\ category[last'.id].parentCategory \in ids \ {last'.arg}
      /\ \A c \in ids : StoredIsLive(c))
       => /\ SubtreeIsLiveAfter(category[last'.id].parentCategory)
          /\ SubtreeIsLiveAfter(last'.arg)
          /\ category'[last'.id].productCountReal
               = category[last'.id].productCountReal
          /\ category'[last'.id].totalProductCount
               = category[last'.id].totalProductCount]_vars

(* ------------------------------ deletes --------------------------------- *)
HasChild(id) == \E k \in ids : category[k].parentCategory = id
HasActiveProduct(id) ==
  \E p \in pids : product[p].isActive /\ id \in Members(product[p].categories)
Rejections == {"HasChildren", "HasProducts"}

\* C16: a delete of an existing category is rejected with HasChildren when
\* some category has it as parent and with HasProducts when an active
\* product's membership list holds it (whatever the stored counts say), and
\* a rejected delete removes nothing and changes no count.
C16_DeleteGuards ==
  [][\A id \in ids :
       (DeleteCategory(id) \/ ServerDeleteCategory(id))
         => /\ (HasChild(id) \/ HasActiveProduct(id)) => last'.res \in Rejections
            /\ (HasChild(id) /\ ~HasActiveProduct(id)) => last'.res = "HasChildren"
            /\ (HasActiveProduct(id) /\ ~HasChild(id)) => last'.res = "HasProducts"
            /\ last'.res \in Rejections
                  => (ids' = ids /\ category' = category /\ product' = product)]_vars

\* C17: in every reachable state no product, active or soft-deleted, has in
\* its membership list the id of a category that was deleted.
C17_NoDanglingMembership ==
  \A p \in pids : \A c \in Members(product[p].categories) :
     ~(c \in Known /\ c \notin ids)

(* ---------------------------- reassignment ----------------------------- *)
\* C18: after a reassignment from source to another category target, no
\* product's membership list holds source, every product whose list held
\* source holds target exactly once, and its other memberships are the same.
C18_ReassignMovesMembership ==
  [][\A s \in ids : \A t \in ids \ {s} :
       (ReassignCategoryProducts(s, t) /\ last'.res = "ok")
         => \A p \in pids :
              /\ s \notin Members(product'[p].categories)
              /\ s \in Members(product[p].categories)
                    => /\ Occurrences(t, product'[p].categories) = 1
                       /\ Members(product'[p].categories) \ {t}
                            = Members(product[p].categories) \ {s, t}
              /\ s \notin Members(product[p].categories)
                    => product'[p].categories = product[p].categories]_vars

\* After the step the stored direct count of a is the one
\* calculateProductCount gives.
DirectIsLiveAfter(a) ==
  category'[a].productCountReal
    = calculateProductCount(category', ids', product', pids', a, FALSE)

\* C19: a reassignment from source to target served alone, all stored counts
\* being right before it, leaves the stored direct counts of source and of
\* target equal to the live ones.
C19_ReassignRecounts ==
  [][\A s \in ids : \A t \in ids \ {s} :
       (/\ ReassignCategoryProducts(s, t) /\ last'.res = "ok"
        /\ \A c \in ids : StoredIsLive(c))
         => (DirectIsLiveAfter(s) /\ DirectIsLiveAfter(t))]_vars

(* ------------------------- link and unlink ------------------------------ *)
Stored == <<ids, nextId, category, pids, product>>

\* C20: linking a product to a category leaves the category exactly once in
\* the product's membership list, and a link asked again when the category
\* is already in the list succeeds and changes nothing, so the state after a
\* second call is the state after the first; an unlink of a category that
\* is not in the list succeeds and changes nothing.
C20_LinkUnlinkIdempotent ==
  [][\A p \in pids : \A c \in ids :
       /\ ServerLinkCategory(p, c)
            => /\ Occurrences(c, product'[p].categories) = 1
               /\ InSeq(c, product[p].categories)
                     => (last'.res = "ok" /\ UNCHANGED Stored)
       /\ (ServerUnlinkCategory(p, c) /\ ~InSeq(c, product[p].categories))
            => (last'.res = "ok" /\ UNCHANGED Stored)]_vars

\* A link has been answered and the product is in two categories, each once.
C20_Witness ==
  /\ last.op = "link-category" /\ last.res = "ok"
  /\ \E p \in pids :
       /\ Len(product[p].categories) = 2
       /\ \A c \in Members(product[p].categories) :
            c \in ids /\ Occurrences(c, product[p].categories) = 1

(* ------------------ counts after create, link and unlink ---------------- *)
MembershipWrites == {"POST /api/admin/products", "link-category", "unlink-category"}

\* The categories product p has entered or left in the step.
Touched(p) ==
  LET old == Members(product[p].categories)
      new == Members(product'[p].categories)
  IN ((old \ new) \cup (new \ old)) \cap ids

\* C21: after an active product is created in, linked to or unlinked from a
\* category c of a tree without cycles, the stored direct count of c is the
\* number of active products in c and the stored subtree count of every
\* ancestor of c is the sum of these numbers over its subtree.
C21_CountsFollowMembership ==
  [][(/\ last'.op \in MembershipWrites /\ last'.res = "ok"
      /\ C1_ParentAcyclic)
       => \A p \in pids' :
            product'[p].isActive
              => \A c \in Touched(p) :
                   /\ category'[c].productCountReal = DirectInMembership(c)'
                   /\ \A a \in UpToRoot(c) \ {c} :
                        category'[a].totalProductCount
                          = SumDirect({a} \cup DescendantsOf(a))']_vars

(* --------------------------- link-products ------------------------------ *)
\* Every product of the list that exists is in the category afterwards, the
\* results hold one entry per id and the three numbers add up to the
\* length of the list.
BestEffort(categoryId, productIds) ==
  /\ \A i \in 1..Len(productIds) :
       productIds[i] \in pids
         => InSeq(categoryId, product'[productIds[i]].categories)
  /\ Len(view'.res[1]) = Len(productIds)
  /\ \A i \in 1..Len(productIds) : view'.res[1][i].productId = productIds[i]
  /\ view'.res[2] + view'.res[3] + view'.res[4] = Len(productIds)

\* C22: a link of a list of product ids to an existing category is served
\* item by item: every product of the list that exists ends in the
\* category whatever else the list holds, there is one result per id, linked
\* + alreadyLinked + errors is the length of the list, and after the last
\* item the stored direct count of the category is the recomputed one.
C22_BulkLinkBestEffort ==
  [][\A c \in ids : \A b \in Batches \ {<<>>} :
       (ServerLinkProducts(c, b) /\ last'.res = "ok")
         => /\ BestEffort(c, b)
            /\ category'[c].productCountReal = DirectInMembership(c)']_vars

\* The part of C22 about the items alone.
BulkLinkItems ==
  [][\A c \in ids : \A b \in Batches \ {<<>>} :
       (ServerLinkProducts(c, b) /\ last'.res = "ok") => BestEffort(c, b)]_vars

(* ------------------------- bulkUpdateCategories ------------------------- *)
\* C23: a bulk update over a list that holds values that are no ids along
\* with ids of existing categories is not refused as a whole: the update is
\* applied to the existing categories of the list.
C23_BulkUpdateSkipsInvalid ==
  [][\A o \in CategoryIdLists : \A b \in BOOLEAN :
       (/\ BulkUpdateCategories(o, "isActive", b)
        /\ InSeq(Malformed, o) /\ \E i \in 1..Len(o) : o[i] \in ids)
         => /\ last'.res # "InvalidCategoryIds"
            /\ \A i \in 1..Len(o) :
                 o[i] \in ids => category'[o[i]].isActive = b]_vars

(* ------------------- the legacy category of a product ------------------- *)
ProductSaves ==
  {"POST /api/admin/products", "PUT /api/admin/products",
   "link-category", "unlink-category"}

\* C24: after a product create, update, link or unlink, a product with an
\* empty membership list has no legacy category, and a product with a
\* non-empty list whose legacy category was unset before the write has the
\* first element of the list as legacy category.
C24_LegacyFollowsFirst ==
  [][(last'.op \in ProductSaves /\ last'.res = "ok")
       => \A p \in pids' :
            /\ product'[p].categories = <<>> => product'[p].category = Null
            /\ (product'[p].categories # <<>> /\ product[p].category = Null)
                  => product'[p].category = product'[p].categories[1]]_vars

\* C25: in every state reached by product creates, updates (with the list,
\* with the legacy category alone, or with both), links and unlinks, a
\* product with a legacy category and a non-empty membership list has the
\* legacy category in the list.
C25_LegacyIsMember ==
  \A p \in pids :
    (product[p].category # Null /\ product[p].categories # <<>>)
      => InSeq(product[p].category, product[p].categories)

(* ------------------------------ breadcrumbs ----------------------------- *)
\* Every parent chain of the collection ends at a stored root: no cycle and
\* no parent that is not stored.
IsForest ==
  /\ \A c \in ids : ChainEnds(c, MaxCats)
  /\ \A c \in ids : category[c].parentCategory \in ids \cup {Null}

C29_ParentsExist ==
  \A c \in ids :
    category[c].parentCategory # Null => category[c].parentCategory \in ids

(* ------------------- a recomputation that fails ------------------------- *)
\* C27: while the store raises an error under the count recomputation, a
\* product create, update, soft delete, link or unlink and a category delete
\* are stored all the same and answered as a success.
C27_RecomputeFailureSwallowed ==
  [][faulty =>
       /\ \A cats \in CatLists :
            ServerCreateProduct(cats, Null, TRUE)
              => (last'.res = "ok" /\ pids' # pids)
       /\ \A p \in pids : \A cats \in CatLists :
            ServerUpdateProduct(p, <<cats>>, <<>>, <<>>)
              => (last'.res = "ok" /\ product'[p].categories = cats)
       /\ \A p \in pids :
            ServerDeleteProduct(p) => (last'.res = "ok" /\ ~product'[p].isActive)
       /\ \A p \in pids : \A c \in ids :
            /\ ServerLinkCategory(p, c)
                 => (last'.res = "ok" /\ InSeq(c, product'[p].categories))
            /\ ServerUnlinkCategory(p, c)
                 => (last'.res = "ok" /\ ~InSeq(c, product'[p].categories))
       /\ \A id \in ids :
            /\ (DeleteCategory(id) /\ last'.res \notin Rejections)
                 => (last'.res = "ok" /\ id \notin ids')
            /\ (ServerDeleteCategory(id) /\ last'.res \notin Rejections)
                 => (last'.res = "ok" /\ id \notin ids')]_vars

\* A product has been linked to a category while the store fails under the
\* recomputation.
C27_Witness ==
  /\ faulty
  /\ last.op = "link-category" /\ last.res = "ok"
  /\ \E p \in pids : Len(product[p].categories) = 2

(* --------------------- counts and inactive categories ------------------- *)
\* C28: switching a category between active and inactive changes no count
\* calculateProductCount computes, neither the direct count nor the subtree
\* count of any category.
C28_ToggleKeepsCounts ==
  [][\A id \in ids : \A b \in BOOLEAN :
       (UpdateCategory(id, <<>>, <<>>, <<b>>) /\ last'.res = "ok")
         => \A c \in ids : \A includeChildren \in BOOLEAN :
              calculateProductCount(category', ids', product', pids', c,
                                    includeChildren)
                = calculateProductCount(category, ids, product, pids, c,
                                        includeChildren)]_vars

(* ------------------- addCategory and removeCategory --------------------- *)
\* The list of d has no duplicate, its main category is unset or in the
\* list, and is unset when the list is empty.
DocInOrder(d) ==
  /\ NoRepeat(d.categories)
  /\ d.category = Null \/ InSeq(d.category, d.categories)
  /\ d.categories = <<>> => d.category = Null

\* C30: from a product whose main category is unset or one of its
\* categories, any sequence of addCategory and removeCategory calls keeps the
\* categories without duplicates, the main category unset or one of them and
\* unset when there are none; and removing the category that is the main
\* one puts the first of the remaining categories in its place.
C30_MethodsKeepLegacyInStep ==
  /\ [](\A p \in pids : DocInOrder(product[p]))
  /\ [][\A p \in pids : \A c \in Cats :
          (/\ RemoveCategory(p, c)
           /\ product[p].category = c /\ product'[p].categories # <<>>)
            => product'[p].category = product'[p].categories[1]]_vars

\* The main category has been removed and the first of the two remaining
\* categories has taken its place.
C30_Witness ==
  /\ last.op = "removeCategory"
  /\ \E p \in pids :
       /\ Len(product[p].categories) = 2
       /\ product[p].category = product[p].categories[1]

====
